---------------------------- MODULE Spec2Model ----------------------------
(***************************************************************************)
(* Model of the frame loop of Assignment_20/space_shooter.py.              *)
(*                                                                         *)
(* Units.  Time is in milliseconds: the loop's dt is clock.tick(FPS)/1000, *)
(* an integer number of milliseconds.  Positions are in thousandths of a   *)
(* pixel (mpx), velocities in mpx per second, so that pos += vel * dt is   *)
(* pos + vel * dt / 1000.  The code's floats are modelled in this fixed    *)
(* point; a pygame Rect holds integers and a float assigned to it is cut   *)
(* towards zero, which the model keeps (RectOf).                           *)
(*                                                                         *)
(* One iteration of `while running` is modelled by the steps of its body,  *)
(* in the order of the code, with pc naming the next step.  There is one   *)
(* thread, so the steps of a frame never interleave with anything.         *)
(***************************************************************************)
EXTENDS Integers, Sequences, FiniteSets

\* ---------- Configuration (space_shooter.py lines 9-30) ----------
WIDTH == 900
HEIGHT == 600
PLAYER_SPEED == 340
PLAYER_W == 48
PLAYER_H == 36
PLAYER_FIRE_COOLDOWN == 180
BULLET_SPEED == 700
BULLET_W == 6
BULLET_H == 14
ENEMY_SPAWN_INTERVAL == 1000
ENEMY_W == 42
ENEMY_H == 30
PARTICLE_COUNT == 18

\* ---------- Bounds of the model ----------
\* Frames a behaviour may start.
MaxFrames == 5

\* The largest score the single-frame specification starts from.
MaxScore == 200

\* ---------- Arithmetic helpers ----------
Max(a, b) == IF a >= b THEN a ELSE b

Min(a, b) == IF a <= b THEN a ELSE b

\* Division cut towards zero, as int() and the Rect conversion cut.
TruncDiv(a, b) == IF a >= 0 THEN a \div b ELSE -((-a) \div b)

\* clamp with the upper limit left out.
clampNoUpper(v, a, b) == Max(a, v)

clamp(v, a, b) == Max(a, Min(b, v))

\* math.sin of a phase in milliradians, times 1000 (Bhaskara's rational
\* approximation 16 h (pi - h) / (5 pi^2 - 4 h (pi - h)), exact to about 0.002;
\* the divisions are ordered to stay within 32 bits).
Sin1000(ph) ==
    LET t == ph % 6284
        h == IF t < 3142 THEN t ELSE t - 3142
        q == h * (3142 - h)
        s == (16 * q) \div ((5 * 3142 * 3142 - 4 * q) \div 1000)
    IN  IF t < 3142 THEN s ELSE -s

\* ---------- Rectangles ----------
\* image.get_rect(center=pos) and rect.center = pos: integer centre, the
\* top-left corner half the (integer) size away.
RectOf(x, y, w, h) ==
    [left |-> TruncDiv(x, 1000) - (w \div 2), top |-> TruncDiv(y, 1000) - (h \div 2),
     w |-> w, h |-> h]

\* pygame.sprite.collide_rect: Rect.colliderect, strict overlap.
collide_rect(a, b) ==
    /\ a.left < b.left + b.w
    /\ a.top < b.top + b.h
    /\ a.left + a.w > b.left
    /\ a.top + a.h > b.top

PlayerRect(p) == RectOf(p.x, p.y, PLAYER_W, PLAYER_H)

BulletRect(b) == RectOf(b.x, b.y, BULLET_W, BULLET_H)

EnemyRect(e) == RectOf(e.x, e.y, ENEMY_W, ENEMY_H)

\* ---------- Inputs ----------
KeyLeft(k) == "K_LEFT" \in k \/ "K_a" \in k

KeyRight(k) == "K_RIGHT" \in k \/ "K_d" \in k

KeyUp(k) == "K_UP" \in k \/ "K_w" \in k

KeyDown(k) == "K_DOWN" \in k \/ "K_s" \in k

KeyFire(k) == "K_SPACE" \in k \/ "K_z" \in k

EvQuit == [type |-> "QUIT", key |-> "none"]

EvEscape == [type |-> "KEYDOWN", key |-> "K_ESCAPE"]

EvPause == [type |-> "KEYDOWN", key |-> "K_p"]

EvOther == [type |-> "KEYDOWN", key |-> "K_SPACE"]

\* What one frame reads from its collaborators: the events queued since the
\* last frame, the milliseconds the clock reports, the keys held.
FrameInputs ==
    { [events |-> <<>>, dt |-> 1000, keys |-> {"K_UP"}],
      [events |-> <<EvPause, EvPause>>, dt |-> 1000, keys |-> {}],
      [events |-> <<EvOther>>, dt |-> 100, keys |-> {"K_w", "K_SPACE"}],
      [events |-> <<>>, dt |-> 17, keys |-> {"K_z", "K_LEFT", "K_s"}],
      [events |-> <<EvPause>>, dt |-> 17, keys |-> {"K_z", "K_d"}],
      [events |-> <<EvQuit>>, dt |-> 1000, keys |-> {}],
      [events |-> <<EvEscape>>, dt |-> 17, keys |-> {"K_SPACE"}] }

\* Draws of spawn_enemy and Enemy.__init__: x in [40, WIDTH-40], y in
\* [-110, -30], speed in [60, 140], phase in [0, 2 pi), osc_amp in [8, 26].
SpawnDraws ==
    { [x |-> 450000, y |-> -110000, speed |-> 140000, phase |-> 0, osc_amp |-> 8000],
      [x |-> 420000, y |-> -30000, speed |-> 140000, phase |-> 6000, osc_amp |-> 26000],
      [x |-> 450000, y |-> -30000, speed |-> 60000, phase |-> 1500, osc_amp |-> 8000] }

\* Draws of Particle.__init__, as streams: particle i of a burst drawn from
\* stream s gets entry (s + i) of each table.
ParticleStreams == {0, 1}

LifetimeDraw(n) == IF n % 3 = 0 THEN 360 ELSE IF n % 3 = 1 THEN 500 ELSE 600

VelDraw(n) ==
    IF n % 4 = 0 THEN [vx |-> 0, vy |-> 0]
    ELSE IF n % 4 = 1 THEN [vx |-> 100000, vy |-> 0]
    ELSE IF n % 4 = 2 THEN [vx |-> 0, vy |-> -150000]
    ELSE [vx |-> -90000, vy |-> 90000]

\* Draws of Star.update on a wrap: x in [0, WIDTH].
StarXDraws == {0, 900000}

\* pc, frames and start are the model's own: the next step of the loop body,
\* the frames started so far, and what the current frame found when it
\* started.  hits and collided are the values returned by groupcollide (line
\* 347) and spritecollide (line 354) in the frame's collision passes.
\* expired holds the Particle objects the latest particle_group.update killed,
\* as that update left them: kill() takes a sprite out of its groups and
\* leaves the object as it is.  since_shot is the model's own: the dt of the
\* unpaused ticks since the latest shot, counted up to the cooldown, and -1
\* before the first shot.
VARIABLES pc, running, paused, frames, events, dt, keys,
          player, bullets, enemies, particles, stars,
          spawn_timer, spawn_interval, speed_factor, hits, collided, start,
          expired, since_shot

vars == <<pc, running, paused, frames, events, dt, keys,
          player, bullets, enemies, particles, stars,
          spawn_timer, spawn_interval, speed_factor, hits, collided, start,
          expired, since_shot>>

\* The simulation state: everything the simulation step of a frame may change.
world == <<player, bullets, enemies, particles, stars, spawn_timer, speed_factor>>


\* ---------- Player (lines 73-130) ----------
\* move.normalize() * PLAYER_SPEED, per axis, in mpx per second: a diagonal
\* move has components 1/sqrt(2) = 0.707107.
AxisVel(m, diagonal) ==
    TruncDiv((IF diagonal THEN m * 707107 ELSE m * 1000000) * PLAYER_SPEED, 1000)

PlayerUpdate(p, d, k) ==
    LET mx == (IF KeyLeft(k) THEN -1 ELSE 0) + (IF KeyRight(k) THEN 1 ELSE 0)
        my == (IF KeyUp(k) THEN -1 ELSE 0) + (IF KeyDown(k) THEN 1 ELSE 0)
        diagonal == mx # 0 /\ my # 0
        vx == AxisVel(mx, diagonal)
        vy == AxisVel(my, diagonal)
        nx == p.x + TruncDiv(vx * d, 1000)
        ny == p.y + TruncDiv(vy * d, 1000)
    IN  [p EXCEPT !.vx = vx, !.vy = vy,
                  !.x = clamp(nx, (PLAYER_W * 1000) \div 2, WIDTH * 1000 - (PLAYER_W * 1000) \div 2),
                  !.y = clamp(ny, (PLAYER_H * 1000) \div 2, HEIGHT * 1000 - (PLAYER_H * 1000) \div 2),
                  !.fire_timer = Max(0, p.fire_timer - d)]

\* A gun with no cooldown.
can_shootAlways(p) == TRUE

can_shoot(p) == p.fire_timer <= 0

shoot(p) == [p EXCEPT !.fire_timer = PLAYER_FIRE_COOLDOWN]

\* ---------- Bullet (lines 133-147) ----------
\* Bullet(pos) for pos in whole pixels.
NewBullet(px, py) == [x |-> px * 1000, y |-> py * 1000, vx |-> 0, vy |-> -(BULLET_SPEED * 1000)]

\* A shot of one bullet, from the muzzle point itself.
ShotBulletsSingle(p) ==
    LET r == PlayerRect(p)
    IN  <<NewBullet(r.left + (r.w \div 2), r.top)>>

\* The two bullets of a shot: player.rect.midtop -/+ Vector2(10, 0).
ShotBullets(p) ==
    LET r == PlayerRect(p)
        midx == r.left + (r.w \div 2)
    IN  <<NewBullet(midx - 10, r.top), NewBullet(midx + 10, r.top)>>

\* A bullet that does not move.
BulletStill(b, d) == b

BulletMoved(b, d) ==
    [b EXCEPT !.x = b.x + TruncDiv(b.vx * d, 1000), !.y = b.y + TruncDiv(b.vy * d, 1000)]

\* The test on the position instead of on the rectangle's bottom edge.
BulletKilledByPosition(b) == b.y < -20000

\* if self.rect.bottom < -20: self.kill()
BulletKilled(b) == LET r == BulletRect(b) IN r.top + r.h < -20

\* An update of the group that moves the bullets and removes none.
BulletGroupUpdateKeep(bs, d) == [i \in 1..Len(bs) |-> BulletMoved(bs[i], d)]

BulletGroupUpdate(bs, d) ==
    LET moved == [i \in 1..Len(bs) |-> BulletMoved(bs[i], d)]
    IN  SelectSeq(moved, LAMBDA b : ~BulletKilled(b))

\* ---------- Enemy (lines 150-177) ----------
EnemyMoved(e, d) ==
    LET ph == e.phase + 4 * d
        wobble == TruncDiv(Sin1000(ph) * e.osc_amp, 1000)
    IN  [e EXCEPT !.phase = ph,
                  !.x = e.x + TruncDiv(wobble * d, 1000),
                  !.y = e.y + TruncDiv(e.speed * d, 1000)]

\* The test on the position instead of on the rectangle's top edge.
EnemyKilledByPosition(e) == e.y > (HEIGHT + 40) * 1000

\* if self.rect.top > HEIGHT + 40: self.kill()
EnemyKilled(e) == EnemyRect(e).top > HEIGHT + 40

EnemyGroupUpdate(es, d) ==
    LET moved == [i \in 1..Len(es) |-> EnemyMoved(es[i], d)]
    IN  SelectSeq(moved, LAMBDA e : ~EnemyKilled(e))

\* ---------- Particle (lines 180-204) ----------
\* Particle(pos) for pos in whole pixels, its draws taken from entry n.
NewParticle(px, py, n) ==
    [x |-> px * 1000, y |-> py * 1000, vx |-> VelDraw(n).vx, vy |-> VelDraw(n).vy,
     lifetime |-> LifetimeDraw(n), age |-> 0, alpha |-> 255]

\* The test with > for >=.
ParticleKilledStrict(p, d) == p.age + d > p.lifetime

ParticleKilled(p, d) == p.age + d >= p.lifetime

ParticleMoved(p, d) ==
    [p EXCEPT !.age = p.age + d,
              !.x = p.x + TruncDiv(p.vx * d, 1000),
              !.y = p.y + TruncDiv(p.vy * d, 1000),
              !.vx = TruncDiv(p.vx * 98, 100),
              !.vy = TruncDiv(p.vy * 98, 100),
              !.alpha = TruncDiv(255 * (p.lifetime - (p.age + d)), p.lifetime)]

ParticleGroupUpdate(ps, d) ==
    LET live == SelectSeq(ps, LAMBDA p : ~ParticleKilled(p, d))
    IN  [i \in 1..Len(live) |-> ParticleMoved(live[i], d)]

\* The object of a particle whose update killed it (lines 195-198): the age
\* is advanced, then kill() and return, before the move and before set_alpha.
ParticleExpired(p, d) == [p EXCEPT !.age = p.age + d]

\* The particles an update of the group killed, as it left them.
ParticleGroupExpired(ps, d) ==
    LET dead == SelectSeq(ps, LAMBDA p : ParticleKilled(p, d))
    IN  [i \in 1..Len(dead) |-> ParticleExpired(dead[i], d)]

\* An explosion of half the particles.
spawn_explosionHalf(px, py, s) == [i \in 1..(PARTICLE_COUNT \div 2) |-> NewParticle(px, py, s + i)]

\* spawn_explosion(pos, particle_group), lines 251-254.
spawn_explosion(px, py, s) == [i \in 1..PARTICLE_COUNT |-> NewParticle(px, py, s + i)]

\* ---------- Star (lines 208-220) ----------
\* speed_factor is in millionths.
StarMoved(s, d, sf, rx) ==
    LET step == (20 + s.layer * 40) * d
        y1 == s.y + (step * (sf \div 1000)) \div 1000 + (step * (sf % 1000)) \div 1000000
    IN  IF y1 > (HEIGHT + 10) * 1000 THEN [s EXCEPT !.y = -10000, !.x = rx]
        ELSE [s EXCEPT !.y = y1]

\* A sample of create_starfield: a near star and a far one.
InitStars == <<[x |-> 100000, y |-> 300000, layer |-> 0], [x |-> 700000, y |-> 550000, layer |-> 2]>>

\* ---------- main(), lines 268-406 ----------
\* The event loop without the Escape key.
RECURSIVE HandleEventsNoEscape(_, _, _)
HandleEventsNoEscape(evs, r, p) ==
    IF evs = <<>> THEN [running |-> r, paused |-> p]
    ELSE LET e == Head(evs)
         IN  IF e.type = "QUIT" THEN HandleEventsNoEscape(Tail(evs), FALSE, p)
             ELSE IF e.type = "KEYDOWN"
                  THEN HandleEventsNoEscape(Tail(evs), r, IF e.key = "K_p" THEN ~p ELSE p)
                  ELSE HandleEventsNoEscape(Tail(evs), r, p)

\* The event loop with a P key that pauses and never resumes.
RECURSIVE HandleEventsPauseOnly(_, _, _)
HandleEventsPauseOnly(evs, r, p) ==
    IF evs = <<>> THEN [running |-> r, paused |-> p]
    ELSE LET e == Head(evs)
         IN  IF e.type = "QUIT" THEN HandleEventsPauseOnly(Tail(evs), FALSE, p)
             ELSE IF e.type = "KEYDOWN"
                  THEN HandleEventsPauseOnly(Tail(evs),
                                             IF e.key = "K_ESCAPE" THEN FALSE ELSE r,
                                             IF e.key = "K_p" THEN TRUE ELSE p)
                  ELSE HandleEventsPauseOnly(Tail(evs), r, p)

\* lines 298-305: the event loop of one frame.
RECURSIVE HandleEvents(_, _, _)
HandleEvents(evs, r, p) ==
    IF evs = <<>> THEN [running |-> r, paused |-> p]
    ELSE LET e == Head(evs)
         IN  IF e.type = "QUIT" THEN HandleEvents(Tail(evs), FALSE, p)
             ELSE IF e.type = "KEYDOWN"
                  THEN HandleEvents(Tail(evs),
                                    IF e.key = "K_ESCAPE" THEN FALSE ELSE r,
                                    IF e.key = "K_p" THEN ~p ELSE p)
                  ELSE HandleEvents(Tail(evs), r, p)

\* The simulation step run whether paused or not.
AfterEventsAlways(p) == "spawn"

\* Where the frame goes after its events: `if not paused:` (line 309).
AfterEvents(p) == IF p THEN "draw" ELSE "spawn"

\* lines 311-317
SpeedFactorUpdate(sf, d, k) ==
    IF KeyLeft(k) THEN 750000
    ELSE IF KeyRight(k) THEN 1250000
    ELSE sf + TruncDiv((1000000 - sf) * Min(1000, d * 3), 1000)

\* The interval without its floor of 0.35 s.
SpawnIntervalNoFloor(score) == ENEMY_SPAWN_INTERVAL - Min(score * 20, 700)

\* line 321, in milliseconds: score / 50.0 seconds is score * 20 ms.
SpawnInterval(score) == Max(350, ENEMY_SPAWN_INTERVAL - Min(score * 20, 700))

\* A spawn of two enemies.
spawn_enemyTwice(group, draw) == Append(Append(group, draw), draw)

\* spawn_enemy, lines 242-248.
spawn_enemy(group, draw) == Append(group, draw)

\* groupcollide where an enemy takes only the first bullet that overlaps it.
RECURSIVE GroupCollideFirst(_, _, _, _)
GroupCollideFirst(ens, bls, kept, crashed) ==
    IF ens = <<>> THEN [enemies |-> kept, bullets |-> bls, hits |-> crashed]
    ELSE LET e == Head(ens)
             idx == {i \in 1..Len(bls) : collide_rect(EnemyRect(e), BulletRect(bls[i]))}
             first == CHOOSE i \in idx : \A j \in idx : i <= j
             rest == [i \in 1..(Len(bls) - 1) |-> IF i < first THEN bls[i] ELSE bls[i + 1]]
         IN  IF idx = {} THEN GroupCollideFirst(Tail(ens), bls, Append(kept, e), crashed)
             ELSE GroupCollideFirst(Tail(ens), rest, kept,
                                    Append(crashed, [enemy |-> e, bullets |-> <<bls[first]>>]))

\* groupcollide that kills the bullets and leaves the enemies in their group.
RECURSIVE GroupCollideKeepEnemies(_, _, _, _)
GroupCollideKeepEnemies(ens, bls, kept, crashed) ==
    IF ens = <<>> THEN [enemies |-> kept, bullets |-> bls, hits |-> crashed]
    ELSE LET e == Head(ens)
             col == SelectSeq(bls, LAMBDA b : collide_rect(EnemyRect(e), BulletRect(b)))
             rest == SelectSeq(bls, LAMBDA b : ~collide_rect(EnemyRect(e), BulletRect(b)))
         IN  IF col = <<>> THEN GroupCollideKeepEnemies(Tail(ens), bls, Append(kept, e), crashed)
             ELSE GroupCollideKeepEnemies(Tail(ens), rest, Append(kept, e),
                                          Append(crashed, [enemy |-> e, bullets |-> col]))

\* pygame.sprite.groupcollide(enemy_group, bullet_group, True, True): for each
\* enemy of the group in order, every bullet still in the bullet group that
\* overlaps it is killed, and the enemy with them.
RECURSIVE GroupCollide(_, _, _, _)
GroupCollide(ens, bls, kept, crashed) ==
    IF ens = <<>> THEN [enemies |-> kept, bullets |-> bls, hits |-> crashed]
    ELSE LET e == Head(ens)
             col == SelectSeq(bls, LAMBDA b : collide_rect(EnemyRect(e), BulletRect(b)))
             rest == SelectSeq(bls, LAMBDA b : ~collide_rect(EnemyRect(e), BulletRect(b)))
         IN  IF col = <<>> THEN GroupCollide(Tail(ens), bls, Append(kept, e), crashed)
             ELSE GroupCollide(Tail(ens), rest, kept, Append(crashed, [enemy |-> e, bullets |-> col]))

\* The score counted per bullet destroyed instead of per enemy.
RECURSIVE ScorePerBullet(_, _)
ScorePerBullet(score, hs) ==
    IF hs = <<>> THEN score ELSE ScorePerBullet(score + 10 * Len(Head(hs).bullets), Tail(hs))

\* lines 348-349: player.score += 10 for each enemy of hits.
ScoreAfterHits(score, hs) == score + 10 * Len(hs)

\* The explosions of lines 348-351, one per enemy hit, at enemy.rect.center.
RECURSIVE HitExplosions(_, _)
HitExplosions(hs, s) ==
    IF hs = <<>> THEN <<>>
    ELSE LET r == EnemyRect(Head(hs).enemy)
         IN  spawn_explosion(r.left + (r.w \div 2), r.top + (r.h \div 2), s)
                 \o HitExplosions(Tail(hs), s)

\* The explosions of lines 363-364, one per enemy still in the group.
RECURSIVE EnemyExplosions(_, _)
EnemyExplosions(es, s) ==
    IF es = <<>> THEN <<>>
    ELSE LET r == EnemyRect(Head(es))
         IN  spawn_explosion(r.left + (r.w \div 2), r.top + (r.h \div 2), s)
                 \o EnemyExplosions(Tail(es), s)

\* pygame.sprite.spritecollide(player, enemy_group, True, collide_rect): the
\* enemies overlapping the player, all killed.
SpriteCollide(p, es) == SelectSeq(es, LAMBDA e : collide_rect(PlayerRect(p), EnemyRect(e)))

SpriteCollideRest(p, es) == SelectSeq(es, LAMBDA e : ~collide_rect(PlayerRect(p), EnemyRect(e)))

\* One life taken per enemy that hit the player.
LivesPerEnemy(lives, col) == lives - Len(col)

\* line 355: what one colliding frame costs.
LivesAfterHit(lives, col) == lives - 1

\* A game that is never over.
GameOverNever(lives) == FALSE

\* The game-over test with < for <=.
GameOverBelowZero(lives) == lives < 0

\* line 357
GameOver(lives) == lives <= 0

\* The unpaused time since the latest shot after a tick of d ms without a
\* shot, counted no further than the cooldown.
SinceShotAfter(t, d) == IF t < 0 THEN t ELSE Min(t + d, PLAYER_FIRE_COOLDOWN)

Init ==
    /\ pc = "events"
    /\ running = TRUE
    /\ paused = FALSE
    /\ frames = 0
    /\ events = <<>>
    /\ dt = 0
    /\ keys = {}
    /\ player = [x |-> (WIDTH \div 2) * 1000, y |-> (HEIGHT - 100) * 1000, vx |-> 0, vy |-> 0,
                 fire_timer |-> 0, score |-> 0, lives |-> 3]
    /\ bullets = <<>>
    /\ enemies = <<>>
    /\ particles = <<>>
    /\ stars = InitStars
    /\ spawn_timer = 0
    /\ spawn_interval = 0
    /\ speed_factor = 1000000
    /\ hits = <<>>
    /\ collided = <<>>
    /\ start = [bullets |-> 0, score |-> 0, lives |-> 3]
    /\ expired = <<>>
    /\ since_shot = -1

\* lines 296-309: the loop test, the clock, the events, the keys held.
Events(in) ==
    /\ pc = "events"
    /\ running
    /\ frames < MaxFrames
    /\ frames' = frames + 1
    /\ dt' = in.dt
    /\ events' = in.events
    /\ keys' = in.keys
    /\ running' = HandleEvents(in.events, running, paused).running
    /\ paused' = HandleEvents(in.events, running, paused).paused
    /\ pc' = AfterEvents(paused')
    /\ start' = [bullets |-> Len(bullets), score |-> player.score, lives |-> player.lives]
    /\ UNCHANGED <<player, bullets, enemies, particles, stars, spawn_timer,
                   spawn_interval, speed_factor, hits, collided, expired, since_shot>>

\* lines 310-324: starfield speed factor, spawn timer, spawn.
Spawn(draw) ==
    /\ pc = "spawn"
    /\ speed_factor' = SpeedFactorUpdate(speed_factor, dt, keys)
    /\ spawn_interval' = SpawnInterval(player.score)
    /\ IF spawn_timer + dt >= spawn_interval'
       THEN spawn_timer' = 0 /\ enemies' = spawn_enemy(enemies, draw)
       ELSE spawn_timer' = spawn_timer + dt /\ UNCHANGED enemies
    /\ pc' = "player"
    /\ UNCHANGED <<running, paused, frames, events, dt, keys, player, bullets,
                   particles, stars, hits, collided, start, expired, since_shot>>

\* lines 326-335: player update, shooting.
PlayerStep ==
    /\ pc = "player"
    /\ LET p == PlayerUpdate(player, dt, keys)
       IN  IF KeyFire(keys) /\ can_shoot(p)
           THEN /\ bullets' = bullets \o ShotBullets(p)
                /\ player' = shoot(p)
                /\ since_shot' = 0
           ELSE /\ player' = p
                /\ since_shot' = SinceShotAfter(since_shot, dt)
                /\ UNCHANGED bullets
    /\ pc' = "update"
    /\ UNCHANGED <<running, paused, frames, events, dt, keys, enemies, particles,
                   stars, spawn_timer, spawn_interval, speed_factor, hits, collided, start,
                   expired>>

\* lines 337-344: the groups' and the stars' update.
Update(rx) ==
    /\ pc = "update"
    /\ bullets' = BulletGroupUpdate(bullets, dt)
    /\ enemies' = EnemyGroupUpdate(enemies, dt)
    /\ particles' = ParticleGroupUpdate(particles, dt)
    /\ expired' = ParticleGroupExpired(particles, dt)
    /\ stars' = [i \in 1..Len(stars) |-> StarMoved(stars[i], dt, speed_factor, rx)]
    /\ pc' = "bullet_enemy"
    /\ UNCHANGED <<running, paused, frames, events, dt, keys, player, spawn_timer,
                   spawn_interval, speed_factor, hits, collided, start, since_shot>>

\* lines 346-351: bullets against enemies.
BulletEnemy(s) ==
    /\ pc = "bullet_enemy"
    /\ LET c == GroupCollide(enemies, bullets, <<>>, <<>>)
       IN  /\ enemies' = c.enemies
           /\ bullets' = c.bullets
           /\ hits' = c.hits
           /\ player' = [player EXCEPT !.score = ScoreAfterHits(player.score, c.hits)]
           /\ particles' = particles \o HitExplosions(c.hits, s)
    /\ pc' = "enemy_player"
    /\ UNCHANGED <<running, paused, frames, events, dt, keys, stars, spawn_timer,
                   spawn_interval, speed_factor, collided, start, expired, since_shot>>

\* lines 353-366: enemies against the player, and the soft reset.
EnemyPlayer(s) ==
    /\ pc = "enemy_player"
    /\ LET col == SpriteCollide(player, enemies)
           rest == SpriteCollideRest(player, enemies)
           r == PlayerRect(player)
           cx == r.left + (r.w \div 2)
           cy == r.top + (r.h \div 2)
           lives1 == LivesAfterHit(player.lives, col)
       IN  /\ collided' = col
           /\ IF col = <<>>
              THEN UNCHANGED <<player, enemies, bullets, particles>>
              ELSE IF GameOver(lives1)
                   THEN /\ player' = [player EXCEPT !.lives = 3, !.score = 0]
                        /\ particles' = particles \o spawn_explosion(cx, cy, s)
                                          \o spawn_explosion(cx, cy, s)
                                          \o EnemyExplosions(rest, s)
                        /\ enemies' = <<>>
                        /\ bullets' = <<>>
                   ELSE /\ player' = [player EXCEPT !.lives = lives1]
                        /\ particles' = particles \o spawn_explosion(cx, cy, s)
                        /\ enemies' = rest
                        /\ UNCHANGED bullets
    /\ pc' = "draw"
    /\ UNCHANGED <<running, paused, frames, events, dt, keys, stars, spawn_timer,
                   spawn_interval, speed_factor, hits, start, expired, since_shot>>

\* lines 368-403 change nothing the model holds; then the loop test (line
\* 296), and pygame.quit() / sys.exit() when it fails (lines 405-406).
Draw ==
    /\ pc = "draw"
    /\ pc' = IF running THEN "events" ELSE "done"
    /\ UNCHANGED <<running, paused, frames, events, dt, keys, player, bullets,
                   enemies, particles, stars, spawn_timer, spawn_interval,
                   speed_factor, hits, collided, start, expired, since_shot>>

Next ==
    \/ \E in \in FrameInputs : Events(in)
    \/ \E draw \in SpawnDraws : Spawn(draw)
    \/ PlayerStep
    \/ \E rx \in StarXDraws : Update(rx)
    \/ \E s \in ParticleStreams : BulletEnemy(s)
    \/ \E s \in ParticleStreams : EnemyPlayer(s)
    \/ Draw

Spec == Init /\ [][Next]_vars

\* ---------- One simulation step from a state in mid-game ----------
\* The update rules are functions of the state a frame finds and of its dt
\* and keys.  SpecUnit starts a frame's simulation step in a state drawn from
\* the sets below (the player anywhere on the border of its range or inside
\* it, any combination of direction keys, bullets near the top of the
\* screen, scores up to MaxScore) and runs it up to the collision passes.
UnitDts == {0, 4, 5, 17, 1000}

UnitKeys ==
    {d \cup f : d \in SUBSET {"K_LEFT", "K_d", "K_UP", "K_s"}, f \in {{}, {"K_z"}}}

UnitXs == {(PLAYER_W * 1000) \div 2, (WIDTH \div 2) * 1000, WIDTH * 1000 - (PLAYER_W * 1000) \div 2}

UnitYs == {(PLAYER_H * 1000) \div 2, HEIGHT * 1000 - (PLAYER_H * 1000) \div 2}

UnitScores == {0, 10, 30, 40, 100, MaxScore}

UnitBullets ==
    { <<>>,
      <<[x |-> 450000, y |-> -25000, vx |-> 0, vy |-> -(BULLET_SPEED * 1000)]>>,
      <<[x |-> 440000, y |-> -10000, vx |-> 0, vy |-> -(BULLET_SPEED * 1000)],
        [x |-> 460000, y |-> -21000, vx |-> 0, vy |-> -(BULLET_SPEED * 1000)]>> }

InitUnit ==
    /\ pc = "spawn"
    /\ running = TRUE
    /\ paused = FALSE
    /\ frames = 1
    /\ events = <<>>
    /\ dt \in UnitDts
    /\ keys \in UnitKeys
    /\ player \in [x : UnitXs, y : UnitYs, vx : {0}, vy : {0}, fire_timer : {0, 100},
                    score : UnitScores, lives : {3}]
    /\ bullets \in UnitBullets
    /\ enemies = <<>>
    /\ particles = <<>>
    /\ stars = InitStars
    /\ spawn_timer \in {0, 990}
    /\ spawn_interval = 0
    /\ speed_factor = 1000000
    /\ hits = <<>>
    /\ collided = <<>>
    /\ start = [bullets |-> Len(bullets), score |-> player.score, lives |-> player.lives]
    /\ expired = <<>>
    /\ since_shot = IF player.fire_timer = 0 THEN -1 ELSE PLAYER_FIRE_COOLDOWN - player.fire_timer

NextUnit ==
    \/ \E draw \in SpawnDraws : Spawn(draw)
    \/ PlayerStep
    \/ \E rx \in StarXDraws : Update(rx)

SpecUnit == InitUnit /\ [][NextUnit]_vars

\* ---------- The second half of a tick from a state in mid-game ----------
\* SpecTick starts an unpaused tick at its group updates (line 338), after the
\* spawn and the player's step, and runs it to the end of the frame.  The
\* player is at its starting point, with a pair of bullets just fired or
\* older bullets in flight, enemies drawn from a pool (two about the player,
\* one in the open, two near the bottom edge, one just spawned above the top
\* edge) and particles of several ages.
TickDts == {17, 100, 1000}

TickEnemyPool ==
    << [x |-> 450000, y |-> 468000, speed |-> 60000, phase |-> 0, osc_amp |-> 8000],
       [x |-> 460000, y |-> 500000, speed |-> 60000, phase |-> 0, osc_amp |-> 8000],
       [x |-> 200000, y |-> 300000, speed |-> 140000, phase |-> 1500, osc_amp |-> 26000],
       [x |-> 700000, y |-> 639000, speed |-> 60000, phase |-> 0, osc_amp |-> 8000],
       [x |-> 800000, y |-> 655000, speed |-> 140000, phase |-> 0, osc_amp |-> 8000],
       [x |-> 440000, y |-> -45000, speed |-> 60000, phase |-> 0, osc_amp |-> 8000] >>

\* The members of seq at the positions in m, in order.
Pick(seq, m) ==
    LET F[i \in 0..Len(seq)] ==
            IF i = 0 THEN <<>> ELSE IF i \in m THEN Append(F[i - 1], seq[i]) ELSE F[i - 1]
    IN  F[Len(seq)]

TickEnemies == {Pick(TickEnemyPool, m) : m \in SUBSET (1..Len(TickEnemyPool))}

TickBullets ==
    { <<>>,
      <<NewBullet(440, 482), NewBullet(460, 482)>>,
      <<[x |-> 200000, y |-> 310000, vx |-> 0, vy |-> -(BULLET_SPEED * 1000)],
        [x |-> 440000, y |-> -20000, vx |-> 0, vy |-> -(BULLET_SPEED * 1000)]>> }

TickParticles ==
    { <<>>,
      <<[x |-> 450000, y |-> 500000, vx |-> 100000, vy |-> 0,
         lifetime |-> 500, age |-> 483, alpha |-> 8],
        [x |-> 450000, y |-> 500000, vx |-> 0, vy |-> -150000,
         lifetime |-> 500, age |-> 150, alpha |-> 178],
        [x |-> 300000, y |-> 200000, vx |-> -90000, vy |-> 90000,
         lifetime |-> 360, age |-> 0, alpha |-> 255]>> }

InitTick ==
    /\ pc = "update"
    /\ running = TRUE
    /\ paused = FALSE
    /\ frames = 1
    /\ events = <<>>
    /\ dt \in TickDts
    /\ keys = {}
    /\ player \in [x : {(WIDTH \div 2) * 1000}, y : {(HEIGHT - 100) * 1000}, vx : {0}, vy : {0},
                    fire_timer : {0}, score : {0, 30}, lives : {1, 3}]
    /\ bullets \in TickBullets
    /\ enemies \in TickEnemies
    /\ particles \in TickParticles
    /\ stars = InitStars
    /\ spawn_timer = dt
    /\ spawn_interval = SpawnInterval(player.score)
    /\ speed_factor = 1000000
    /\ hits = <<>>
    /\ collided = <<>>
    /\ start = [bullets |-> Len(bullets), score |-> player.score, lives |-> player.lives]
    /\ expired = <<>>
    /\ since_shot = -1

NextTick ==
    \/ \E rx \in StarXDraws : Update(rx)
    \/ \E s \in ParticleStreams : BulletEnemy(s)
    \/ \E s \in ParticleStreams : EnemyPlayer(s)
    \/ Draw

SpecTick == InitTick /\ [][NextTick]_vars

\* ---------- The loop without a bound on its frames ----------
\* SpecLive follows entities from their creation to their removal, over as
\* many frames as that takes.  It starts with a bullet just fired from the
\* player's starting point, a particle just created, and enemies: one just
\* spawned at the far end of the spawn band with the lowest speed, or one on
\* its way down in the bullet's path, or one on its way down onto the player
\* (on its last life or not) with the slow one behind.  These sprites carry
\* values no later draw of this specification repeats (osc_amp 9, lifetime
\* 0.45 s; no shot is fired), so they can be told from the sprites created
\* later.  A frame is a tick of 0.5 s, with or without toggles of the pause;
\* the enemies spawned later fall past the player to the bottom edge.
LiveInputs ==
    { [events |-> <<>>, dt |-> 500, keys |-> {}],
      [events |-> <<EvPause>>, dt |-> 500, keys |-> {}],
      [events |-> <<EvPause, EvOther, EvPause>>, dt |-> 500, keys |-> {}] }

LiveSpawnDraws ==
    { [x |-> 800000, y |-> -30000, speed |-> 140000, phase |-> 0, osc_amp |-> 8000] }

LiveEnemies ==
    { <<[x |-> 100000, y |-> -110000, speed |-> 60000, phase |-> 0, osc_amp |-> 9000]>>,
      <<[x |-> 440000, y |-> 62000, speed |-> 140000, phase |-> 0, osc_amp |-> 9000]>>,
      <<[x |-> 470000, y |-> 300000, speed |-> 140000, phase |-> 0, osc_amp |-> 9000],
        [x |-> 100000, y |-> -110000, speed |-> 60000, phase |-> 0, osc_amp |-> 9000]>> }

InitLive ==
    /\ pc = "events"
    /\ running = TRUE
    /\ paused = FALSE
    /\ frames = 1
    /\ events = <<>>
    /\ dt = 0
    /\ keys = {}
    /\ \/ player = [x |-> (WIDTH \div 2) * 1000, y |-> (HEIGHT - 100) * 1000, vx |-> 0, vy |-> 0,
                    fire_timer |-> PLAYER_FIRE_COOLDOWN, score |-> 0, lives |-> 3]
       \/ player = [x |-> (WIDTH \div 2) * 1000, y |-> (HEIGHT - 100) * 1000, vx |-> 0, vy |-> 0,
                    fire_timer |-> PLAYER_FIRE_COOLDOWN, score |-> 0, lives |-> 1]
    /\ bullets = <<NewBullet(440, 482)>>
    /\ enemies \in LiveEnemies
    /\ particles = <<[x |-> 300000, y |-> 200000, vx |-> 100000, vy |-> 0,
                      lifetime |-> 450, age |-> 0, alpha |-> 255]>>
    /\ stars = <<[x |-> 700000, y |-> 550000, layer |-> 2]>>
    /\ spawn_timer = 0
    /\ spawn_interval = SpawnInterval(0)
    /\ speed_factor = 1000000
    /\ hits = <<>>
    /\ collided = <<>>
    /\ start = [bullets |-> 1, score |-> 0, lives |-> player.lives]
    /\ expired = <<>>
    /\ since_shot = 0

\* lines 296-309, as Events, with no count of the frames.
EventsLive(in) ==
    /\ pc = "events"
    /\ running
    /\ dt' = in.dt
    /\ events' = in.events
    /\ keys' = in.keys
    /\ running' = HandleEvents(in.events, running, paused).running
    /\ paused' = HandleEvents(in.events, running, paused).paused
    /\ pc' = AfterEvents(paused')
    /\ start' = [bullets |-> Len(bullets), score |-> player.score, lives |-> player.lives]
    /\ UNCHANGED <<frames, player, bullets, enemies, particles, stars, spawn_timer,
                   spawn_interval, speed_factor, hits, collided, expired, since_shot>>

NextLive ==
    \/ \E in \in LiveInputs : EventsLive(in)
    \/ \E draw \in LiveSpawnDraws : Spawn(draw)
    \/ PlayerStep
    \/ \E rx \in StarXDraws : Update(rx)
    \/ \E s \in ParticleStreams : BulletEnemy(s)
    \/ \E s \in ParticleStreams : EnemyPlayer(s)
    \/ Draw

\* The loop is a sequential program: while it runs, its next step is taken.
SpecLive == InitLive /\ [][NextLive]_vars /\ WF_vars(NextLive)

\* ---------- Properties ----------
\* The enemies of es (by index) whose rectangle overlaps the player's.
Overlapping(p, es) == {i \in 1..Len(es) : collide_rect(PlayerRect(p), EnemyRect(es[i]))}

\* The enemies of es that do not overlap the player, in order.
NotOverlapping(p, es) == SelectSeq(es, LAMBDA e : ~collide_rect(PlayerRect(p), EnemyRect(e)))

\* s is the start of t.
IsPrefix(s, t) == Len(s) <= Len(t) /\ SubSeq(t, 1, Len(s)) = s

\* The frame now at pc has run its simulation step up to pc.
Simulated == ~paused /\ frames > 0

\* C1: soft reset.  In an unpaused tick whose enemy-player pass finds a
\* collision with lives at 1 (the decrement brings lives to 0), the pass ends
\* with lives = 3, score = 0, no enemy and no bullet, and every particle that
\* was there before is still there, unchanged; the rest of the tick (drawing)
\* changes none of this.
C1_SoftReset ==
    [][/\ (pc = "enemy_player" /\ player.lives = 1 /\ Overlapping(player, enemies) # {})
            => /\ player'.lives = 3
               /\ player'.score = 0
               /\ enemies' = <<>>
               /\ bullets' = <<>>
               /\ IsPrefix(particles, particles')
               /\ pc' = "draw"
       /\ (pc = "draw" => UNCHANGED world)]_vars

\* A soft reset has happened in this frame: the frame started with one life,
\* the score was positive when an enemy hit the player, and older particles
\* are still in the collection.
C1_Witness ==
    /\ pc = "draw"
    /\ Simulated
    /\ start.lives = 1
    /\ collided # <<>>
    /\ start.score + 10 * Len(hits) > 0
    /\ player.lives = 3
    /\ player.score = 0
    /\ \E i \in 1..Len(particles) : particles[i].age > 0

\* C2, as claimed: the enemy-player pass takes one life per overlapping enemy
\* (stated for the passes that do not end in a soft reset).
C2_LifePerEnemy ==
    [][(pc = "enemy_player" /\ Cardinality(Overlapping(player, enemies)) < player.lives)
            => player'.lives = player.lives - Cardinality(Overlapping(player, enemies))]_vars

\* C2, amended: the enemy-player pass destroys every enemy that overlaps the
\* player and takes exactly one life when at least one does, however many
\* overlap; with no overlap it changes neither.  (A pass that takes the last
\* life ends in the soft reset, with lives back at 3.)
C2_OneLifePerPass ==
    [][pc = "enemy_player"
            => LET k == Cardinality(Overlapping(player, enemies))
               IN  /\ k = 0 => player'.lives = player.lives /\ enemies' = enemies
                   /\ (k > 0 /\ player.lives > 1)
                        => player'.lives = player.lives - 1
                           /\ enemies' = NotOverlapping(player, enemies)
                   /\ (k > 0 /\ player.lives = 1) => player'.lives = 3
                   /\ Overlapping(player', enemies') = {}
                   /\ Len(collided') = k]_vars

\* Two enemies hit the player in the same pass, and it cost one life.
C2_Witness ==
    /\ pc = "draw"
    /\ Simulated
    /\ Len(collided) >= 2
    /\ player.lives = start.lives - 1

\* The bullets destroyed by the enemies of hs, counted per enemy.
RECURSIVE BulletsOf(_)
BulletsOf(hs) == IF hs = <<>> THEN 0 ELSE Len(Head(hs).bullets) + BulletsOf(Tail(hs))

\* C3: the score grows by exactly 10 for each enemy the bullet-enemy pass
\* destroys, and changes in no other step, except that the enemy-player pass
\* sets it to 0 in a soft reset; enemies lost to the player or to the bottom
\* of the screen leave it as it is.
C3_Score ==
    [][/\ pc = "bullet_enemy"
            => player'.score = player.score + 10 * (Len(enemies) - Len(enemies'))
       /\ pc = "enemy_player"
            => \/ player'.score = player.score
               \/ /\ player'.score = 0
                  /\ player.lives = 1
                  /\ Overlapping(player, enemies) # {}
       /\ pc \notin {"bullet_enemy", "enemy_player"} => player'.score = player.score]_vars

\* The bullet-enemy pass of this frame destroyed an enemy together with two
\* bullets, and the score is 10 up for it.
C3_Witness ==
    /\ pc = "enemy_player"
    /\ Len(hits) = 1
    /\ Len(hits[1].bullets) = 2
    /\ player.score = start.score + 10

C5_PausedFrame ==
    [][/\ paused' => UNCHANGED world
       /\ (pc = "events" /\ paused') => pc' = "draw"]_vars

\* A paused frame that read dt = 1 s with the up key held, with bullets and
\* enemies in flight and both timers running.
C5_Witness ==
    /\ pc = "draw"
    /\ paused
    /\ dt = 1000
    /\ KeyUp(keys)
    /\ bullets # <<>>
    /\ enemies # <<>>
    /\ player.fire_timer > 0
    /\ spawn_timer > 0

\* e is a QUIT event or an Escape key press.
IsQuit(e) == e.type = "QUIT" \/ (e.type = "KEYDOWN" /\ e.key = "K_ESCAPE")

\* C6: the loop ends if and only if a QUIT or Escape event was received.  A
\* frame that reads one, paused or not, clears `running`; only such a frame
\* does; the frame is then finished and the loop left, and no frame starts
\* once `running` is cleared.
C6_Termination ==
    [][/\ (running /\ ~running') => pc = "events" /\ \E i \in 1..Len(events') : IsQuit(events'[i])
       /\ (pc = "events" /\ \E i \in 1..Len(events') : IsQuit(events'[i])) => ~running'
       /\ ~running => ~running' /\ frames' = frames /\ pc' # "events"
       /\ (pc = "draw" /\ ~running) => pc' = "done"
       /\ pc' = "done" => ~running]_vars

\* The loop has been left on an Escape received while paused.
C6_Witness ==
    /\ pc = "done"
    /\ paused
    /\ frames >= 2
    /\ events = <<EvEscape>>

\* C7: after Player.update, and so in every state, the player's position is
\* within width/2 <= x <= WIDTH - width/2 and height/2 <= y <= HEIGHT -
\* height/2, that is 24 <= x <= 876 and 18 <= y <= 582 pixels, for every dt
\* and every combination of direction keys.
C7_PlayerOnScreen ==
    /\ 24000 <= player.x /\ player.x <= 876000
    /\ 18000 <= player.y /\ player.y <= 582000

\* Player.update has run with right and down held for a second from the
\* bottom right corner, and the player is still at the corner.
C7_Witness ==
    /\ pc = "update"
    /\ dt = 1000
    /\ KeyRight(keys) /\ KeyDown(keys) /\ ~KeyLeft(keys) /\ ~KeyUp(keys)
    /\ player.vx > 0 /\ player.vy > 0
    /\ player.x = 876000
    /\ player.y = 582000

\* C8: the spawn interval a tick uses is max(0.35, 1.0 - min(score/50, 0.7))
\* seconds for the score it finds: 1 s less 20 ms per point down to a floor
\* of 0.35 s.  It is 1.0 s at score 0 and 0.35 s at score 100, never grows
\* with the score, and is always within [0.35, 1.0] s.
C8_SpawnInterval ==
    /\ pc \in {"player", "update", "bullet_enemy"}
         => /\ spawn_interval = (IF player.score * 20 >= 650 THEN 350 ELSE 1000 - player.score * 20)
            /\ 350 <= spawn_interval /\ spawn_interval <= 1000
            /\ player.score = 0 => spawn_interval = 1000
            /\ player.score = 100 => spawn_interval = 350
    /\ \A sc \in 0..(MaxScore - 1) : SpawnInterval(sc + 1) <= SpawnInterval(sc)

\* A tick has computed its spawn interval at score 100: 0.35 s.
C8_Witness ==
    /\ pc = "player"
    /\ player.score = 100
    /\ spawn_interval = 350

\* C9, as claimed, in its last part: over one tick the number of bullets
\* never grows by any amount other than 2.
C9_GrowthOnlyByTwo ==
    (pc = "draw" /\ Simulated /\ Len(bullets) > start.bullets) => Len(bullets) = start.bullets + 2

\* C9, amended: bullets are created only by a shot, and every shot (fire key
\* held and can_shoot() true after the player's update of an unpaused tick)
\* appends exactly two bullets, at the muzzle point (the middle of the top
\* edge of the player's rectangle) moved 10 px left and 10 px right, with the
\* same y and the same velocity (0, -700); no other step adds a bullet.  The
\* count over a whole tick grows by at most 2: by less when the update or a
\* collision pass of the same tick removes bullets.
C9_ShotsInPairs ==
    [][/\ pc = "player"
            => LET fired == KeyFire(keys) /\ player.fire_timer - dt <= 0
                   mx == TruncDiv(player'.x, 1000)
                   my == TruncDiv(player'.y, 1000) - 18
               IN  IF fired
                   THEN bullets' = bullets \o
                           <<[x |-> (mx - 10) * 1000, y |-> my * 1000, vx |-> 0, vy |-> -700000],
                             [x |-> (mx + 10) * 1000, y |-> my * 1000, vx |-> 0, vy |-> -700000]>>
                   ELSE bullets' = bullets
       /\ pc # "player" => Len(bullets') <= Len(bullets)
       /\ (pc' = "draw" /\ ~paused') => Len(bullets') <= start'.bullets + 2]_vars

\* A shot has just been fired with bullets already in flight: the last two
\* bullets are the pair, 20 px apart at the same height.
C9_Witness ==
    /\ pc = "update"
    /\ Len(bullets) >= 4
    /\ Len(bullets) = start.bullets + 2
    /\ bullets[Len(bullets)].x = bullets[Len(bullets) - 1].x + 20000
    /\ bullets[Len(bullets)].y = bullets[Len(bullets) - 1].y

\* C10, as claimed: no bullet whose position is above y = -20 survives
\* Bullet.update.
C10_RemovedAboveMinus20 ==
    pc = "bullet_enemy" => \A i \in 1..Len(bullets) : bullets[i].y >= -20000

\* C10, amended: Bullet.update removes a bullet as soon as the bottom edge of
\* its rectangle, int(y) + 7, is above -20 after the move, that is when
\* y <= -28, and keeps it otherwise; a bullet at y = -25 is removed by the
\* next update exactly when dt >= 5 ms; no bullet with y <= -28 survives an
\* update.
C10_RemovedByRectBottom ==
    [][pc = "update"
            => /\ \A i \in 1..Len(bullets') : bullets'[i].y > -28000
               /\ Len(bullets') =
                     Cardinality({i \in 1..Len(bullets) : bullets[i].y - 700 * dt > -28000})
               /\ (\E i \in 1..Len(bullets) : bullets[i].y = -25000)
                     => ((\E j \in 1..Len(bullets') : bullets'[j].y = -25000 - 700 * dt)
                            <=> dt < 5)]_vars

\* An update has kept a bullet whose position is above y = -20: its
\* rectangle still reaches below that line.
C10_Witness ==
    /\ pc = "bullet_enemy"
    /\ \E i \in 1..Len(bullets) : bullets[i].y < -20000 /\ bullets[i].y > -28000

\* C11, as claimed: at the end of a tick and at a frame boundary no enemy
\* has a position with y > HEIGHT + 40 = 640.
C11_NoneBelow640 ==
    pc \in {"draw", "events", "done"} => \A i \in 1..Len(enemies) : enemies[i].y <= 640000

\* C11, amended: Enemy.update removes an enemy when the top edge of its
\* rectangle, int(y) - 15, is below HEIGHT + 40 after the move, that is when
\* y >= 656, whether or not it collides with anything, and keeps every other
\* enemy: one with 640 < y < 656 stays in the collection.  In every state,
\* frame boundaries included, every enemy has y < 656.
C11_RemovedByRectTop ==
    [][/\ \A i \in 1..Len(enemies') : enemies'[i].y < 656000
       /\ pc = "update"
            => Len(enemies') =
                 Cardinality({i \in 1..Len(enemies) :
                                enemies[i].y + (enemies[i].speed * dt) \div 1000 < 656000})]_vars

\* A tick without a collision has ended with an enemy in the collection
\* whose position is below y = 640.
C11_Witness ==
    /\ pc = "draw"
    /\ \E i \in 1..Len(enemies) : enemies[i].y > 640000 /\ enemies[i].y < 656000
    /\ collided = <<>>
    /\ hits = <<>>

\* C12, as claimed: a particle is destroyed by the update in which its age
\* reaches its lifetime, with alpha 0 at that point; a particle that lives on
\* has alpha = int(255 * (1 - age / lifetime)) after its update.
C12_AlphaZeroAtDeath ==
    pc = "bullet_enemy"
        => /\ \A i \in 1..Len(expired) :
                 expired[i].age >= expired[i].lifetime /\ expired[i].alpha = 0
           /\ \A i \in 1..Len(particles) :
                 particles[i].age > 0
                    => /\ particles[i].age < particles[i].lifetime
                       /\ particles[i].alpha * particles[i].lifetime
                             <= 255 * (particles[i].lifetime - particles[i].age)
                       /\ (particles[i].alpha + 1) * particles[i].lifetime
                             > 255 * (particles[i].lifetime - particles[i].age)

\* C12, amended: Particle.update advances the age by dt and destroys the
\* particle exactly when the age has reached or passed its lifetime (at age
\* 0.5 s exactly for a lifetime of 0.5 s); that update returns before it sets
\* the alpha, so a destroyed particle keeps the alpha of its last earlier
\* update (255 if it had none) and is simply no longer drawn.  A particle
\* that lives on has alpha = int(255 * (1 - age / lifetime)) after the update.
C12_ParticleAging ==
    [][pc = "update"
         => LET dying == {i \in 1..Len(particles) : particles[i].age + dt >= particles[i].lifetime}
                living == (1..Len(particles)) \ dying
            IN  /\ Len(expired') = Cardinality(dying)
                /\ Len(particles') = Cardinality(living)
                /\ \A j \in 1..Len(expired') :
                      \E i \in dying :
                         /\ expired'[j].lifetime = particles[i].lifetime
                         /\ expired'[j].age = particles[i].age + dt
                         /\ expired'[j].alpha = particles[i].alpha
                /\ \A j \in 1..Len(particles') :
                      \E i \in living :
                         /\ particles'[j].lifetime = particles[i].lifetime
                         /\ particles'[j].age = particles[i].age + dt
                         /\ particles'[j].alpha * particles'[j].lifetime
                               <= 255 * (particles'[j].lifetime - particles'[j].age)
                         /\ (particles'[j].alpha + 1) * particles'[j].lifetime
                               > 255 * (particles'[j].lifetime - particles'[j].age)]_vars

\* An update has destroyed a particle at the moment its age equals its
\* lifetime, its alpha still above 0, and has faded another that lives on.
C12_Witness ==
    /\ pc = "bullet_enemy"
    /\ \E i \in 1..Len(expired) :
          expired[i].age = expired[i].lifetime /\ expired[i].lifetime = 500 /\ expired[i].alpha > 0
    /\ \E j \in 1..Len(particles) : particles[j].age = 167 /\ particles[j].alpha = 169

\* C13: the fire cooldown stays in [0, 0.18] s; a shot happens only with the
\* fire key held and the cooldown at 0 after the tick's countdown, and sets
\* it to 0.18 s; without a shot the cooldown only counts down by dt, and only
\* in unpaused ticks.  So between a shot and the next the unpaused ticks, up
\* to and including the tick of the next shot, have dt summing to at least
\* 0.18 s, and paused frames add nothing to that sum.
C13_FireRate ==
    [][/\ 0 <= player'.fire_timer /\ player'.fire_timer <= 180
       /\ pc = "player"
            => IF Len(bullets') > Len(bullets)
               THEN /\ KeyFire(keys)
                    /\ player.fire_timer - dt <= 0
                    /\ player'.fire_timer = 180
                    /\ since_shot >= 0 => since_shot + dt >= 180
               ELSE /\ player'.fire_timer = (IF player.fire_timer > dt THEN player.fire_timer - dt ELSE 0)
                    /\ KeyFire(keys) => player'.fire_timer > 0
       /\ pc # "player"
            => /\ player'.fire_timer = player.fire_timer
               /\ since_shot' = since_shot
               /\ Len(bullets') <= Len(bullets)]_vars

\* The fire key is held in a tick that comes less than 0.18 s after a shot:
\* the player's step has fired nothing and the cooldown is still running.
C13_Witness ==
    /\ pc = "update"
    /\ KeyFire(keys)
    /\ since_shot > 0 /\ since_shot < 180
    /\ player.fire_timer = 180 - since_shot
    /\ Len(bullets) = start.bullets

\* The members of a sequence, as a set.
Range(seq) == {seq[i] : i \in 1..Len(seq)}

Added(old, new) == SubSeq(new, Len(old) + 1, Len(new))

\* All of the particles ps are new and sit at the whole-pixel point (px, py).
FreshAt(ps, px, py) ==
    \A i \in 1..Len(ps) :
        ps[i].x = px * 1000 /\ ps[i].y = py * 1000 /\ ps[i].age = 0 /\ ps[i].alpha = 255

\* C15, as claimed: an enemy-player collision adds 18 particles, and
\* 18 * (1 + n) when it causes a soft reset with n enemies remaining.
C15_OnePlusN ==
    [][pc = "enemy_player"
         => LET n == Len(enemies) - Len(collided')
            IN  Len(particles') - Len(particles) =
                   (IF collided' = <<>> THEN 0
                    ELSE IF player.lives - 1 <= 0 THEN 18 * (1 + n) ELSE 18)]_vars

\* C15, amended: every explosion adds exactly 18 new particles at its point.
\* The bullet-enemy pass triggers one explosion per enemy destroyed.  An
\* enemy-player collision triggers one explosion at the player's position;
\* when it causes a soft reset it triggers a second explosion at the player's
\* position and then one per enemy still live, at that enemy's position, so
\* a life-loss step that resets with n remaining enemies adds exactly
\* 18 * (2 + n) particles, and one that does not reset adds 18.  No other
\* step adds particles.
C15_Explosions ==
    [][/\ pc = "bullet_enemy"
            => /\ Len(particles') = Len(particles) + 18 * Len(hits')
               /\ SubSeq(particles', 1, Len(particles)) = particles
       /\ pc = "enemy_player"
            => LET n == Len(enemies) - Len(collided')
                   reset == collided' # <<>> /\ player.lives - 1 <= 0
                   new == Added(particles, particles')
                   px == TruncDiv(player.x, 1000)
                   py == TruncDiv(player.y, 1000)
               IN  /\ SubSeq(particles', 1, Len(particles)) = particles
                   /\ Len(new) = (IF collided' = <<>> THEN 0
                                  ELSE IF reset THEN 18 * (2 + n) ELSE 18)
                   /\ collided' # <<>> => FreshAt(SubSeq(new, 1, 18), px, py)
                   /\ reset
                        => /\ FreshAt(SubSeq(new, 19, 36), px, py)
                           /\ \A k \in 1..n :
                                 \E i \in 1..Len(enemies) :
                                    /\ ~collide_rect(PlayerRect(player), EnemyRect(enemies[i]))
                                    /\ FreshAt(SubSeq(new, 18 * (k + 1) + 1, 18 * (k + 2)),
                                               TruncDiv(enemies[i].x, 1000),
                                               TruncDiv(enemies[i].y, 1000))
       /\ pc \notin {"bullet_enemy", "enemy_player"} => Len(particles') <= Len(particles)]_vars

\* A tick has ended with a soft reset that found the player on its last
\* life and at least one enemy clear of it: the particle group holds the two
\* bursts at the player and one more for each such enemy.
C15_Witness ==
    /\ pc = "draw"
    /\ start.lives = 1 /\ player.lives = 3
    /\ collided # <<>>
    /\ hits = <<>>
    /\ enemies = <<>>
    /\ Len(particles) >= 18 * 3

\* C16: in each unpaused tick the spawn timer grows by dt; then, if and only
\* if the timer has reached the spawn interval of the current score, exactly
\* one enemy is spawned and the timer is set to 0, the time over the
\* interval being dropped; otherwise no enemy is spawned.  One tick spawns
\* at most one enemy however large its dt.  No other step, a soft reset
\* included, changes the timer or adds an enemy.
C16_SpawnPolicy ==
    [][/\ pc = "spawn"
            => LET t == spawn_timer + dt
                   interval == IF player.score * 20 >= 650 THEN 350 ELSE 1000 - player.score * 20
               IN  IF t >= interval
                   THEN /\ spawn_timer' = 0
                        /\ Len(enemies') = Len(enemies) + 1
                        /\ SubSeq(enemies', 1, Len(enemies)) = enemies
                   ELSE /\ spawn_timer' = t
                        /\ enemies' = enemies
       /\ pc # "spawn"
            => /\ spawn_timer' = spawn_timer
               /\ Len(enemies') <= Len(enemies)]_vars

\* A tick whose dt alone is longer than the spawn interval has spawned: the
\* timer is back at 0 and the time over the interval is gone.
C16_Witness ==
    /\ pc = "player"
    /\ Simulated
    /\ dt > spawn_interval
    /\ spawn_timer = 0
    /\ enemies # <<>>

\* C17: each enemy is removed at most once and has at most one effect on the
\* game: 10 points when the bullet pass removes it, one life (for the whole
\* pass) when the player pass removes it, nothing when it leaves the bottom
\* or a soft reset clears it.  A sprite removed by the update step or by the
\* bullet pass takes part in no later collision test of the tick: the bullet
\* pass tests only bullets and enemies the update left, a bullet is taken by
\* one enemy at most, and the player pass tests only the enemies the bullet
\* pass left.
C17_NoDoubleDestruction ==
    [][/\ pc = "update" => player' = player
       /\ pc = "bullet_enemy"
            => LET hit == {hits'[k].enemy : k \in 1..Len(hits')}
               IN  /\ Cardinality(hit) = Len(hits')
                   /\ hit \subseteq Range(enemies)
                   /\ hit \cap Range(enemies') = {}
                   /\ Len(enemies) = Len(enemies') + Len(hits')
                   /\ Len(bullets) = Len(bullets') + BulletsOf(hits')
                   /\ \A k \in 1..Len(hits') :
                         \A j \in 1..Len(hits'[k].bullets) :
                            /\ hits'[k].bullets[j] \in Range(bullets)
                            /\ hits'[k].bullets[j] \notin Range(bullets')
                            /\ hits'[k].bullets[j].y > -28000
                            /\ \A m \in 1..Len(hits') :
                                  m # k => hits'[k].bullets[j] \notin Range(hits'[m].bullets)
                   /\ player'.score = player.score + 10 * Cardinality(hit)
                   /\ player'.lives = player.lives
       /\ pc = "enemy_player"
            => /\ Range(collided') \subseteq Range(enemies)
               /\ Range(collided') \cap {hits[k].enemy : k \in 1..Len(hits)} = {}
               /\ Range(collided') \cap Range(enemies') = {}
               /\ Len(enemies') <= Len(enemies) - Len(collided')
               /\ player'.score \in {player.score, 0}
               /\ player'.lives \in {player.lives, player.lives - 1, 3}
               /\ collided' = <<>> => player' = player /\ enemies' = enemies]_vars

\* A tick has ended in which the bullet pass removed one enemy and the
\* player pass another: 10 points for each of the first kind, one life for
\* the pass, and no enemy counted on both sides.
C17_Witness ==
    /\ pc = "draw"
    /\ hits # <<>>
    /\ collided # <<>>
    /\ player.score = start.score + 10 * Len(hits)
    /\ player.lives = start.lives - 1
    /\ \A k \in 1..Len(hits) : hits[k].enemy \notin Range(collided)

\* The P key presses among the events evs.
Toggles(evs) == {i \in 1..Len(evs) : evs[i].type = "KEYDOWN" /\ evs[i].key = "K_p"}

\* C18: the paused flag flips once per P key-down event and changes in no
\* other way: a frame that reads an odd number of them switches between
\* running and paused, a frame that reads an even number leaves the flag as
\* it was, and the flag the events leave decides whether that same frame
\* runs its simulation step.
C18_PauseToggle ==
    [][/\ pc = "events"
            => /\ paused' = (IF Cardinality(Toggles(events')) % 2 = 1 THEN ~paused ELSE paused)
               /\ pc' = (IF paused' THEN "draw" ELSE "spawn")
       /\ pc # "events" => paused' = paused
       /\ pc' \in {"spawn", "player", "update", "bullet_enemy", "enemy_player"} => ~paused']_vars

\* A paused game has read two P presses in one frame: it is still paused and
\* the frame has gone straight to drawing.
C18_Witness ==
    /\ pc = "draw"
    /\ paused
    /\ Len(events) > 2
    /\ Cardinality(Toggles(events)) = 2

\* C20: at every frame boundary, the start and the end of every tick, lives
\* is 1, 2 or 3 (0 or less is never seen between frames) and the score is a
\* non-negative multiple of 10.
C20_SessionCounters ==
    pc \in {"events", "draw", "done"}
        => /\ player.lives \in {1, 2, 3}
           /\ player.score >= 0
           /\ player.score % 10 = 0

\* The frame after a tick that took the last life with points on the board:
\* the counters at the boundary are lives 3 and score 0.
C20_Witness ==
    /\ pc = "events"
    /\ frames > 0
    /\ start.lives = 1
    /\ start.score + 10 * Len(hits) > 0
    /\ collided # <<>>
    /\ player.lives = 3
    /\ player.score = 0

\* The sprites SpecLive starts with that are still in their groups.
FirstEnemies == {i \in 1..Len(enemies) : enemies[i].osc_amp = 9000}

FirstParticles == {i \in 1..Len(particles) : particles[i].lifetime = 450}

\* C19: provided unpaused ticks with dt > 0 keep occurring, every bullet,
\* every enemy and every particle is removed from its collection some time
\* after its creation, and does not come back: bullets by leaving the top or
\* hitting an enemy, enemies by leaving the bottom, a collision or a soft
\* reset, particles by age.
C19_BoundedLifetime ==
    ([]<>(pc = "spawn" /\ dt > 0))
        => <>[](bullets = <<>> /\ FirstEnemies = {} /\ FirstParticles = {})

\* The bullet has hit the enemy that was above the player, the first
\* particle has aged out, and the game goes on with enemies spawned since.
C19_Witness ==
    /\ pc = "events"
    /\ bullets = <<>>
    /\ FirstEnemies = {}
    /\ FirstParticles = {}
    /\ player.score = 10
    /\ enemies # <<>>

=============================================================================
